---- MODULE Spec2Model ----
(***************************************************************************)
(* Model of the noria daemon Controller (daemon/src/controller.rs): the    *)
(* worker registry, heartbeat handling, the liveness sweep and the polling *)
(* loop that shares the Blender lock with the API (recipe) server thread.  *)
(*                                                                         *)
(* Time is a monotonic integer clock (std::time::Instant) advanced by      *)
(* Tick.  Every step of the controller reads the clock once.               *)
(***************************************************************************)
EXTENDS Integers, FiniteSets, Sequences, TLC

\* ---- bounds of the model ----
MaxTime == 6        \* the clock stops advancing here
MaxConns == 2       \* outbound connections opened in one run
MaxRecipes == 1     \* migrations applied by the API server in one run

\* ---- configuration handed to Controller::new ----
heartbeat_every == 1
healthcheck_every == 1

\* worker source addresses (SocketAddr of the inbound connection)
Addrs == {"w1", "w2"}

\* CoordinationPayload variants; "Other" stands for every variant that
\* Controller::handle does not match
Payloads == {"Register", "Heartbeat", "Other"}

NoMsg == [source |-> "none", payload |-> "none"]

\* every CoordinationMessage a worker connection can deliver
Msgs == [source : Addrs, payload : Payloads]

\* values of the history variable hist
NoMessages == 0 - 1
Mixed == 0 - 2

\* HashMap::new
EmptyMap == [a \in {} |-> 0]

VARIABLES
    pc,                     \* position of the controller thread in listen()
    api_pc,                 \* position of the "api-srv" thread
    lock,                   \* state of the Mutex around the Blender
    now,                    \* Instant::now()
    workers,                \* Controller.workers : HashMap<SocketAddr, WorkerStatus>
    last_checked_workers,   \* Controller.last_checked_workers
    timeout,                \* the polling loop's timeout (0 is None)
    msg,                    \* the CoordinationMessage being processed
    graph,                  \* workers admitted to the Blender (add_worker)
    recipes,                \* migrations committed to the Blender
    opened,                 \* outbound TcpSender connections opened so far
    outcome,                \* what the loop did with the result of handle()
    warns,                  \* "worker at .. has failed!" warnings per address
    hist                    \* history of the messages handled per address:
                            \*   NoMessages  none so far
                            \*   t >= 0      only one Register, which succeeded at time t
                            \*   Mixed       anything else

vars == <<pc, api_pc, lock, now, workers, last_checked_workers, timeout, msg,
          graph, recipes, opened, outcome, warns, hist>>

ctrl_vars == <<pc, workers, last_checked_workers, timeout, msg, opened,
               outcome, warns, hist>>

\* ---- pure helpers ----

\* Instant::elapsed()
elapsed(t) == now - t

\* variant: the entry is stamped with the start of the clock, not the current time
WorkerStatus_new_Epoch(sender) ==
    [healthy |-> TRUE, last_heartbeat |-> 0, sender |-> sender]

\* WorkerStatus::new
WorkerStatus_new(sender) ==
    [healthy |-> TRUE, last_heartbeat |-> now, sender |-> sender]

\* variant: an existing entry is kept (entry().or_insert)
insert_IfAbsent(map, k, v) ==
    [a \in (DOMAIN map) \cup {k} |-> IF a \in DOMAIN map THEN map[a] ELSE v]

\* HashMap::insert
insert(map, k, v) ==
    [a \in (DOMAIN map) \cup {k} |-> IF a = k THEN v ELSE map[a]]

\* variant: the threshold is not strict
has_failed_NonStrict(ws) ==
    ws.healthy /\ elapsed(ws.last_heartbeat) >= heartbeat_every * 3

\* variant: entries already unhealthy are examined again
has_failed_Again(ws) ==
    elapsed(ws.last_heartbeat) > heartbeat_every * 3

\* the condition of the inner `if` of check_worker_liveness
has_failed(ws) ==
    ws.healthy /\ elapsed(ws.last_heartbeat) > heartbeat_every * 3

\* variant: the gate is not strict
sweep_due_NonStrict == elapsed(last_checked_workers) >= healthcheck_every

\* the condition of the outer `if` of check_worker_liveness
sweep_due == elapsed(last_checked_workers) > healthcheck_every

\* ---- initial state: after Controller::new, listen() not yet started ----
Init ==
    /\ pc = "bind"
    /\ api_pc = "unborn"
    /\ lock = "free"
    /\ now = 0
    /\ workers = EmptyMap
    /\ last_checked_workers = 0
    /\ timeout = 0
    /\ msg = NoMsg
    /\ graph = EmptyMap
    /\ recipes = 0
    /\ opened = 0
    /\ outcome = "none"
    /\ warns = [a \in Addrs |-> 0]
    /\ hist = [a \in Addrs |-> NoMessages]

\* ---- the clock ----
Tick ==
    /\ now < MaxTime
    /\ now' = now + 1
    /\ UNCHANGED <<pc, api_pc, lock, workers, last_checked_workers, timeout,
                   msg, graph, recipes, opened, outcome, warns, hist>>

\* ---- listen(): startup ----

\* TcpListener::bind(..).unwrap()
Bind ==
    /\ pc = "bind"
    /\ \E ok \in BOOLEAN : pc' = IF ok THEN "spawn" ELSE "panicked"
    /\ UNCHANGED <<api_pc, lock, now, workers, last_checked_workers, timeout,
                   msg, graph, recipes, opened, outcome, warns, hist>>

\* variant: a failed spawn is only reported, and the loop is entered
SpawnApi_Continue ==
    /\ pc = "spawn"
    /\ \E ok \in BOOLEAN :
          /\ pc' = "poll"
          /\ api_pc' = IF ok THEN "idle" ELSE api_pc
    /\ UNCHANGED <<lock, now, workers, last_checked_workers, timeout,
                   msg, graph, recipes, opened, outcome, warns, hist>>

\* thread::Builder::spawn of "api-srv"; Err panics
SpawnApi ==
    /\ pc = "spawn"
    /\ \E ok \in BOOLEAN :
          /\ pc' = IF ok THEN "poll" ELSE "panicked"
          /\ api_pc' = IF ok THEN "idle" ELSE api_pc
    /\ UNCHANGED <<lock, now, workers, last_checked_workers, timeout,
                   msg, graph, recipes, opened, outcome, warns, hist>>

\* ---- the polling loop hands the closure one event ----

\* variant: the next message is taken while a registration still waits for
\* the Blender mutex
PollProcess_WhileLocking ==
    /\ pc \in {"poll", "lock"}
    /\ \E m \in Msgs :
          /\ m.payload = "Register" => opened < MaxConns
          /\ msg' = m
    /\ pc' = "handle"
    /\ UNCHANGED <<api_pc, lock, now, workers, last_checked_workers, timeout,
                   graph, recipes, opened, outcome, warns, hist>>

\* PollEvent::Process(ref msg)
PollProcess ==
    /\ pc = "poll"
    /\ \E m \in Msgs :
          /\ m.payload = "Register" => opened < MaxConns
          /\ msg' = m
    /\ pc' = "handle"
    /\ UNCHANGED <<api_pc, lock, now, workers, last_checked_workers, timeout,
                   graph, recipes, opened, outcome, warns, hist>>

\* PollEvent::ResumePolling(timeout) => *timeout = Some(self.healthcheck_every)
PollResume ==
    /\ pc = "poll"
    /\ timeout' = healthcheck_every
    /\ pc' = "check"
    /\ UNCHANGED <<api_pc, lock, now, workers, last_checked_workers, msg,
                   graph, recipes, opened, outcome, warns, hist>>

\* PollEvent::Timeout => ()   (only once a timeout has been set; the
\* deadline itself is not tracked, the arm does nothing but fall through to
\* the liveness check, exactly as the ResumePolling arm does)
PollTimeout ==
    /\ pc = "poll"
    /\ timeout # 0
    /\ pc' = "check"
    /\ UNCHANGED <<api_pc, lock, now, workers, last_checked_workers, timeout,
                   msg, graph, recipes, opened, outcome, warns, hist>>

\* ---- handle(): dispatch on the payload ----

\* variant: an unmatched payload is reported as an error and skipped
HandleOther_Ignore ==
    /\ pc = "handle"
    /\ msg.payload = "Other"
    /\ outcome' = "err"
    /\ pc' = "check"
    /\ UNCHANGED <<api_pc, lock, now, workers, last_checked_workers, timeout,
                   msg, graph, recipes, opened, warns, hist>>

\* _ => unimplemented!()
HandleOther ==
    /\ pc = "handle"
    /\ msg.payload = "Other"
    /\ pc' = "panicked"
    /\ UNCHANGED <<api_pc, lock, now, workers, last_checked_workers, timeout,
                   msg, graph, recipes, opened, outcome, warns, hist>>

\* variant: a heartbeat makes the worker healthy again
record_heartbeat_Revive(map, src) ==
    IF src \in DOMAIN map
    THEN [map EXCEPT ![src].last_heartbeat = now, ![src].healthy = TRUE]
    ELSE map

\* variant: a heartbeat of an unknown source creates an entry
record_heartbeat_Upsert(map, src) ==
    [a \in (DOMAIN map) \cup {src} |->
        IF a = src
        THEN [healthy |-> TRUE, last_heartbeat |-> now,
              sender |-> IF src \in DOMAIN map THEN map[src].sender ELSE 0]
        ELSE map[a]]

\* variant: a heartbeat is stamped with the time of the last sweep
record_heartbeat_Stale(map, src) ==
    IF src \in DOMAIN map
    THEN [map EXCEPT ![src].last_heartbeat = last_checked_workers]
    ELSE map

\* the registry after handle_heartbeat for source src
record_heartbeat(map, src) ==
    IF src \in DOMAIN map
    THEN [map EXCEPT ![src].last_heartbeat = now]
    ELSE map

\* variant: the heartbeat is recorded under the Blender mutex
HandleHeartbeat_Locked ==
    /\ pc = "handle"
    /\ msg.payload = "Heartbeat"
    /\ lock = "free"
    /\ workers' = record_heartbeat(workers, msg.source)
    /\ outcome' = IF msg.source \in DOMAIN workers THEN "ok" ELSE "ok_crit"
    /\ hist' = [hist EXCEPT ![msg.source] = Mixed]
    /\ pc' = "check"
    /\ UNCHANGED <<api_pc, lock, now, last_checked_workers, timeout,
                   msg, graph, recipes, opened, warns>>

\* variant: the liveness check is run only in the timer arms, a handled
\* heartbeat goes straight back to polling
HandleHeartbeat_SkipCheck ==
    /\ pc = "handle"
    /\ msg.payload = "Heartbeat"
    /\ workers' = record_heartbeat(workers, msg.source)
    /\ hist' = [hist EXCEPT ![msg.source] = Mixed]
    /\ msg' = NoMsg
    /\ pc' = "poll"
    /\ UNCHANGED <<api_pc, lock, now, last_checked_workers, timeout,
                   graph, recipes, opened, outcome, warns>>

\* handle_heartbeat: always Ok(()); crit! for an unknown source
HandleHeartbeat ==
    /\ pc = "handle"
    /\ msg.payload = "Heartbeat"
    /\ workers' = record_heartbeat(workers, msg.source)
    /\ outcome' = IF msg.source \in DOMAIN workers THEN "ok" ELSE "ok_crit"
    /\ hist' = [hist EXCEPT ![msg.source] = Mixed]
    /\ pc' = "check"
    /\ UNCHANGED <<api_pc, lock, now, last_checked_workers, timeout,
                   msg, graph, recipes, opened, warns>>

\* variant: the entry is inserted before the connect is attempted
RegisterConnectFail_InsertFirst ==
    /\ pc = "handle"
    /\ msg.payload = "Register"
    /\ workers' = insert(workers, msg.source,
                         [healthy |-> TRUE, last_heartbeat |-> now, sender |-> 0])
    /\ outcome' = "err"
    /\ hist' = [hist EXCEPT ![msg.source] = Mixed]
    /\ pc' = "check"
    /\ UNCHANGED <<api_pc, lock, now, last_checked_workers, timeout,
                   msg, graph, recipes, opened, warns>>

\* handle_register: TcpSender::connect(remote, None)? returns Err; the loop
\* logs "failed to handle message"
RegisterConnectFail ==
    /\ pc = "handle"
    /\ msg.payload = "Register"
    /\ outcome' = "err"
    /\ hist' = [hist EXCEPT ![msg.source] = Mixed]
    /\ pc' = "check"
    /\ UNCHANGED <<api_pc, lock, now, workers, last_checked_workers, timeout,
                   msg, graph, recipes, opened, warns>>

\* handle_register: the connect succeeded; WorkerStatus::new and
\* self.workers.insert
RegisterConnectOk ==
    /\ pc = "handle"
    /\ msg.payload = "Register"
    /\ opened' = opened + 1
    /\ workers' = insert(workers, msg.source, WorkerStatus_new(opened + 1))
    /\ hist' = [hist EXCEPT ![msg.source] =
                    IF @ = NoMessages THEN now ELSE Mixed]
    /\ pc' = "lock"
    /\ UNCHANGED <<api_pc, lock, now, last_checked_workers, timeout,
                   msg, graph, recipes, outcome, warns>>

\* variant: a poisoned mutex is returned as an error, which the loop logs
RegisterLock_LogPoison ==
    /\ pc = "lock"
    /\ lock \in {"free", "poisoned"}
    /\ pc' = IF lock = "free" THEN "add" ELSE "check"
    /\ lock' = IF lock = "free" THEN "ctrl" ELSE lock
    /\ outcome' = IF lock = "free" THEN outcome ELSE "err"
    /\ UNCHANGED <<api_pc, now, workers, last_checked_workers, timeout,
                   msg, graph, recipes, opened, warns, hist>>

\* handle_register: self.blender.lock().unwrap() -- blocks while the API
\* thread holds the mutex, panics when the mutex is poisoned
RegisterLock ==
    /\ pc = "lock"
    /\ lock \in {"free", "poisoned"}
    /\ pc' = IF lock = "free" THEN "add" ELSE "panicked"
    /\ lock' = IF lock = "free" THEN "ctrl" ELSE lock
    /\ UNCHANGED <<api_pc, now, workers, last_checked_workers, timeout,
                   msg, graph, recipes, opened, outcome, warns, hist>>

\* variant: the guard outlives handle_register (it is stored, not dropped)
RegisterAddWorker_KeepLock ==
    /\ pc = "add"
    /\ graph' = insert(graph, msg.source, opened)
    /\ outcome' = "ok"
    /\ pc' = "check"
    /\ UNCHANGED <<api_pc, lock, now, workers, last_checked_workers, timeout,
                   msg, recipes, opened, warns, hist>>

\* handle_register: b.add_worker(msg.source, sender); Ok(()) drops the guard
RegisterAddWorker ==
    /\ pc = "add"
    /\ graph' = insert(graph, msg.source, opened)
    /\ lock' = "free"
    /\ outcome' = "ok"
    /\ pc' = "check"
    /\ UNCHANGED <<api_pc, now, workers, last_checked_workers, timeout,
                   msg, recipes, opened, warns, hist>>

\* ---- check_worker_liveness ----

\* variant: the sweep recomputes the flag, so a fresh heartbeat revives
mark_failed_Recompute(map) ==
    [a \in DOMAIN map |->
        [map[a] EXCEPT !.healthy =
            ~(elapsed(map[a].last_heartbeat) > heartbeat_every * 3)]]

\* variant: failed workers are dropped from the registry (retain)
mark_failed_Evict(map) ==
    [a \in {b \in DOMAIN map : ~has_failed(map[b])} |-> map[a]]

\* the registry after the for loop of check_worker_liveness
mark_failed(map) ==
    [a \in DOMAIN map |->
        IF has_failed(map[a]) THEN [map[a] EXCEPT !.healthy = FALSE]
        ELSE map[a]]

\* variant: the sweep timestamp is refreshed by every call, due or not
CheckWorkerLiveness_AlwaysStamp ==
    /\ pc = "check"
    /\ IF sweep_due
       THEN /\ workers' = mark_failed(workers)
            /\ warns' = [a \in Addrs |->
                  IF a \in DOMAIN workers /\ has_failed(workers[a])
                  THEN warns[a] + 1 ELSE warns[a]]
       ELSE UNCHANGED <<workers, warns>>
    /\ last_checked_workers' = now
    /\ msg' = NoMsg
    /\ outcome' = "none"
    /\ pc' = "poll"
    /\ UNCHANGED <<api_pc, lock, now, timeout, graph, recipes, opened, hist>>

\* check_worker_liveness, then ProcessResult::KeepPolling: the event (and
\* the message it borrowed) is gone when the closure returns
CheckWorkerLiveness ==
    /\ pc = "check"
    /\ IF sweep_due
       THEN /\ workers' = mark_failed(workers)
            /\ warns' = [a \in Addrs |->
                  IF a \in DOMAIN workers /\ has_failed(workers[a])
                  THEN warns[a] + 1 ELSE warns[a]]
            /\ last_checked_workers' = now
       ELSE UNCHANGED <<workers, warns, last_checked_workers>>
    /\ msg' = NoMsg
    /\ outcome' = "none"
    /\ pc' = "poll"
    /\ UNCHANGED <<api_pc, lock, now, timeout, graph, recipes, opened, hist>>

\* ---- the API server thread (api::run), sharing the Blender mutex ----

ApiLock ==
    /\ pc # "panicked"
    /\ api_pc = "idle"
    /\ lock = "free"
    /\ lock' = "api"
    /\ api_pc' = "holding"
    /\ UNCHANGED <<graph, recipes, now>>
    /\ UNCHANGED ctrl_vars

\* a recipe migration committed under the lock
ApiMigrate ==
    /\ pc # "panicked"
    /\ api_pc = "holding"
    /\ recipes < MaxRecipes
    /\ recipes' = recipes + 1
    /\ UNCHANGED <<api_pc, lock, graph, now>>
    /\ UNCHANGED ctrl_vars

ApiUnlock ==
    /\ pc # "panicked"
    /\ api_pc = "holding"
    /\ lock' = "free"
    /\ api_pc' = "idle"
    /\ UNCHANGED <<graph, recipes, now>>
    /\ UNCHANGED ctrl_vars

\* the thread panics while it holds the guard: the mutex is poisoned
ApiPanic ==
    /\ pc # "panicked"
    /\ api_pc = "holding"
    /\ lock' = "poisoned"
    /\ api_pc' = "dead"
    /\ UNCHANGED <<graph, recipes, now>>
    /\ UNCHANGED ctrl_vars

\* api::run returns (Ok, or Err and the closure's unwrap panics)
ApiExit ==
    /\ pc # "panicked"
    /\ api_pc = "idle"
    /\ api_pc' = "dead"
    /\ UNCHANGED <<lock, graph, recipes, now>>
    /\ UNCHANGED ctrl_vars

Next ==
    \/ Tick
    \/ Bind
    \/ SpawnApi
    \/ PollProcess
    \/ PollResume
    \/ PollTimeout
    \/ HandleOther
    \/ HandleHeartbeat
    \/ RegisterConnectFail
    \/ RegisterConnectOk
    \/ RegisterLock
    \/ RegisterAddWorker
    \/ CheckWorkerLiveness
    \/ ApiLock
    \/ ApiMigrate
    \/ ApiUnlock
    \/ ApiPanic
    \/ ApiExit


Spec == Init /\ [][Next]_vars

\* ======================================================================
\* Properties
\* ======================================================================

\* the step in which the connect of a Register message returns
RegisterStep == pc = "handle" /\ pc' # "handle" /\ msg.payload = "Register"

\* the step that handles a Heartbeat message
HeartbeatStep == pc = "handle" /\ pc' # "handle" /\ msg.payload = "Heartbeat"

\* a step of check_worker_liveness that passes the healthcheck_every gate
ExecutedSweep ==
    pc = "check" /\ pc' = "poll" /\ now - last_checked_workers > healthcheck_every

\* C1: handling a Register whose outbound connect fails (the loop logs the
\* error) leaves the registry, the lock and the graph as they were, and the
\* loop goes on to its liveness check instead of stopping.
C1_FailedConnectChangesNothing ==
    [][(RegisterStep /\ outcome' = "err") =>
          /\ workers' = workers
          /\ lock' = lock
          /\ graph' = graph
          /\ opened' = opened
          /\ pc' = "check"]_vars

\* a failed Register for an address that already has an entry has been handled
C1_Witness ==
    /\ pc = "check"
    /\ msg.payload = "Register"
    /\ outcome = "err"
    /\ msg.source \in DOMAIN workers

\* the run so far consists of successful Register messages with pairwise
\* distinct sources, and none of them is still being handled
OnlyDistinctRegisters ==
    /\ \A a \in Addrs : hist[a] # Mixed
    /\ pc \in {"check", "poll"}

\* C2 as stated: after Register messages with distinct sources only, every
\* registered address has exactly one entry, healthy, with last_heartbeat the
\* time of its registration.
C2_AllHealthyAfterRegisters ==
    OnlyDistinctRegisters =>
        /\ DOMAIN workers = {a \in Addrs : hist[a] >= 0}
        /\ \A a \in DOMAIN workers :
              /\ workers[a].healthy
              /\ workers[a].last_heartbeat = hist[a]

\* C2 amended: after Register messages with distinct sources only, every
\* registered address has exactly one entry with last_heartbeat the time of
\* its registration; the entry is healthy unless a liveness sweep has marked
\* it failed, which happens only more than 3 x heartbeat_every after that time.
C2_EntriesAfterRegisters ==
    OnlyDistinctRegisters =>
        /\ DOMAIN workers = {a \in Addrs : hist[a] >= 0}
        /\ \A a \in DOMAIN workers :
              /\ workers[a].last_heartbeat = hist[a]
              /\ workers[a].healthy <=> warns[a] = 0
              /\ ~workers[a].healthy => now - hist[a] > 3 * heartbeat_every

\* every address has registered once, the older registration has gone stale
C2_Witness ==
    /\ pc = "poll"
    /\ \A a \in Addrs : hist[a] >= 0
    /\ \E a, b \in Addrs : workers[a].healthy /\ ~workers[b].healthy

\* C3: a successful Register for an address that already has an entry
\* replaces the entry: the set of addresses is unchanged, the new entry is
\* healthy, stamped with the current time and holds a handle that no entry
\* and no graph node held before; the other entries are unchanged.
C3_ReregisterOverwrites ==
    [][(RegisterStep /\ pc' = "lock" /\ msg.source \in DOMAIN workers) =>
          /\ DOMAIN workers' = DOMAIN workers
          /\ workers'[msg.source].healthy
          /\ workers'[msg.source].last_heartbeat = now
          /\ \A a \in DOMAIN workers :
                workers'[msg.source].sender # workers[a].sender
          /\ \A a \in DOMAIN graph : workers'[msg.source].sender # graph[a]
          /\ \A a \in DOMAIN workers \ {msg.source} : workers'[a] = workers[a]]_vars

\* an address that a sweep had marked failed has registered again
C3_Witness ==
    /\ pc = "lock"
    /\ warns[msg.source] > 0
    /\ workers[msg.source].healthy
    /\ workers[msg.source].last_heartbeat = now

\* C4: a Heartbeat from a registered worker stamps its last_heartbeat with
\* the current time, which is never lower than before, and changes nothing
\* else: healthy and sender of that entry, all other entries, the sweep
\* timestamp, the warnings, the lock and the graph stay as they were.
C4_HeartbeatOnlyRefreshes ==
    [][(HeartbeatStep /\ msg.source \in DOMAIN workers) =>
          /\ DOMAIN workers' = DOMAIN workers
          /\ workers'[msg.source].last_heartbeat = now
          /\ workers'[msg.source].last_heartbeat >= workers[msg.source].last_heartbeat
          /\ workers'[msg.source].healthy = workers[msg.source].healthy
          /\ workers'[msg.source].sender = workers[msg.source].sender
          /\ \A a \in DOMAIN workers \ {msg.source} : workers'[a] = workers[a]
          /\ last_checked_workers' = last_checked_workers
          /\ warns' = warns
          /\ lock' = lock
          /\ graph' = graph
          /\ recipes' = recipes]_vars

\* a Heartbeat of a worker marked failed has been handled: still unhealthy
C4_Witness ==
    /\ pc = "check"
    /\ msg.payload = "Heartbeat"
    /\ msg.source \in DOMAIN workers
    /\ ~workers[msg.source].healthy
    /\ workers[msg.source].last_heartbeat = now

\* C5: a Heartbeat whose source has no entry leaves the registry and the
\* graph unchanged, handle() returns Ok (nothing is logged as a failure,
\* only the critical line), and the loop goes on to its liveness check.
C5_UnknownHeartbeatIgnored ==
    [][(HeartbeatStep /\ msg.source \notin DOMAIN workers) =>
          /\ workers' = workers
          /\ graph' = graph
          /\ lock' = lock
          /\ outcome' = "ok_crit"
          /\ pc' = "check"]_vars

\* a Heartbeat of an unregistered address handled while another is registered
C5_Witness ==
    /\ pc = "check"
    /\ outcome = "ok_crit"
    /\ msg.source \notin DOMAIN workers
    /\ DOMAIN workers # {}

\* C6: in a sweep that executes, a worker goes from healthy to unhealthy
\* exactly when its heartbeat age is strictly greater than
\* 3 x heartbeat_every; at that age or less a healthy worker stays healthy,
\* and no worker becomes healthy.
C6_StrictThreshold ==
    [][ExecutedSweep =>
          /\ DOMAIN workers' = DOMAIN workers
          /\ \A a \in DOMAIN workers :
                /\ workers[a].healthy =>
                      (~workers'[a].healthy <=>
                          now - workers[a].last_heartbeat > 3 * heartbeat_every)
                /\ ~workers[a].healthy => ~workers'[a].healthy]_vars

\* a sweep has just run over a healthy worker of age exactly 3 x heartbeat_every
C6_Witness ==
    /\ pc = "poll"
    /\ now > 0
    /\ last_checked_workers = now
    /\ \E a \in DOMAIN workers :
          /\ workers[a].healthy
          /\ now - workers[a].last_heartbeat = 3 * heartbeat_every

\* the only message handled for address a so far is one successful Register
Quiet(a) == hist[a] >= 0

\* C7: for a worker that registered once and sent nothing else, the entry is
\* healthy exactly while no failure warning was logged for it, at most one
\* warning is ever logged, the flag falls (with that warning) in the first
\* executed sweep that finds more than 3 x heartbeat_every elapsed since the
\* registration, and no other step touches the entry or the warning count.
C7_MarkedFailedOnce ==
    /\ [](\A a \in Addrs : Quiet(a) =>
              /\ a \in DOMAIN workers
              /\ warns[a] <= 1
              /\ workers[a].healthy <=> warns[a] = 0)
    /\ [][\A a \in Addrs : (Quiet(a) /\ hist'[a] = hist[a]) =>
              IF /\ ExecutedSweep
                 /\ workers[a].healthy
                 /\ now - hist[a] > 3 * heartbeat_every
              THEN /\ ~workers'[a].healthy
                   /\ warns'[a] = warns[a] + 1
              ELSE /\ workers'[a] = workers[a]
                   /\ warns'[a] = warns[a]]_vars

\* a sweep is about to execute over a silent worker already marked failed
C7_Witness ==
    /\ pc = "check"
    /\ now - last_checked_workers > healthcheck_every
    /\ \E a \in Addrs : Quiet(a) /\ ~workers[a].healthy /\ warns[a] = 1

\* C8: no step removes an entry or lowers its last_heartbeat.
C8_LastHeartbeatMonotonic ==
    [][\A a \in DOMAIN workers :
          /\ a \in DOMAIN workers'
          /\ workers'[a].last_heartbeat >= workers[a].last_heartbeat]_vars

\* an address registered again, later than its previous heartbeat, after a
\* heartbeat had already moved its timestamp
C8_Witness ==
    /\ pc = "lock"
    /\ hist[msg.source] = Mixed
    /\ workers[msg.source].last_heartbeat = now
    /\ now >= 2
    /\ workers[msg.source].sender = 2

\* C9 as stated: no step taken while a Register message is being handled
\* (connect, lock acquisition, admission) stops the loop.
C9_RegisterNeverStopsLoop ==
    [][(pc \in {"handle", "lock", "add"} /\ msg.payload = "Register") =>
          pc' # "panicked"]_vars

\* C10: handling a payload that is neither Register nor Heartbeat stops the
\* controller without touching the registry or the graph, and once the
\* controller has stopped no message is dispatched, no sweep runs and
\* neither the registry nor the graph changes.
C10_UnknownPayloadAborts ==
    /\ [][(pc = "handle" /\ pc' # "handle" /\ msg.payload = "Other") =>
              /\ pc' = "panicked"
              /\ workers' = workers
              /\ graph' = graph]_vars
    /\ [][pc = "panicked" =>
              /\ pc' = "panicked"
              /\ msg' = msg
              /\ workers' = workers
              /\ warns' = warns
              /\ last_checked_workers' = last_checked_workers
              /\ graph' = graph]_vars

\* the controller stopped on an unmatched payload with a worker registered,
\* and time has gone on since
C10_Witness ==
    /\ pc = "panicked"
    /\ msg.payload = "Other"
    /\ DOMAIN workers # {}
    /\ now > last_checked_workers + healthcheck_every

\* C11: the graph is mutated by the controller only in a step taken while it
\* holds the Blender mutex; the controller holds the mutex exactly between
\* lock() and the end of handle_register and the API thread exactly while it
\* is in its critical section, so never both; when the controller holds it
\* the connect has returned and the entry is stored (the blocking connect is
\* over); and the mutex is not held by the controller when the loop runs its
\* liveness check or waits for the next event.
C11_LockDiscipline ==
    /\ [](/\ lock = "ctrl" <=> pc = "add"
          /\ lock = "api" <=> api_pc = "holding"
          /\ ~(pc = "add" /\ api_pc = "holding")
          /\ lock = "ctrl" =>
                /\ msg.payload = "Register"
                /\ msg.source \in DOMAIN workers
                /\ workers[msg.source].sender = opened
          /\ pc \in {"poll", "check", "handle"} => lock # "ctrl")
    /\ [][graph' # graph => (lock = "ctrl" /\ pc = "add")]_vars
    /\ [][(pc = "handle" /\ pc' # pc) => lock' = lock]_vars

\* the controller holds the mutex after the API thread held and released it
C11_Witness ==
    /\ pc = "add"
    /\ lock = "ctrl"
    /\ api_pc = "idle"
    /\ recipes > 0

\* a message is being dispatched: from handle() being entered to its return
Dispatching == pc \in {"handle", "lock", "add"}

\* C12: while a message is being dispatched (the connect in progress, the
\* wait for the mutex, the admission) the message in hand does not change,
\* no sweep runs (no timestamp update, no warning, no flag falls) and the
\* dispatch ends only in the liveness check or a panic; a sweep step starts
\* from the liveness check after the dispatch and ends in the wait for the
\* next event; and a step of the API thread leaves the registry unchanged.
C12_Serialized ==
    /\ [][Dispatching =>
              /\ msg' = msg
              /\ last_checked_workers' = last_checked_workers
              /\ warns' = warns
              /\ \A a \in DOMAIN workers :
                    workers[a].healthy => workers'[a].healthy
              /\ pc' \in {"handle", "lock", "add", "check", "panicked"}]_vars
    /\ [][(last_checked_workers' # last_checked_workers \/ warns' # warns) =>
              (pc = "check" /\ pc' = "poll")]_vars
    /\ [][(pc' = "handle" /\ pc # "handle") => pc = "poll"]_vars
    /\ [][(api_pc' # api_pc \/ recipes' # recipes) =>
              /\ workers' = workers
              /\ warns' = warns
              /\ last_checked_workers' = last_checked_workers]_vars

\* a registration waits for the mutex held by the API thread, time has
\* passed since the entry was stored and a sweep is overdue
C12_Witness ==
    /\ pc = "lock"
    /\ lock = "api"
    /\ now > workers[msg.source].last_heartbeat
    /\ now - last_checked_workers > healthcheck_every

\* C13: every event the loop takes (a message, ResumePolling or Timeout)
\* leads, once its handling has returned, to the liveness check and only
\* from there back to the wait for the next event; the check sweeps whenever
\* more than healthcheck_every has passed since the last sweep, whatever the
\* event was: the timestamp becomes the current time and every healthy entry
\* older than 3 x heartbeat_every becomes unhealthy.
C13_SweepEveryIteration ==
    /\ [][(pc = "poll" /\ pc' # pc) => pc' \in {"handle", "check"}]_vars
    /\ [][(Dispatching /\ ~Dispatching') => pc' \in {"check", "panicked"}]_vars
    /\ [][(pc' = "poll" /\ pc # "poll") => pc \in {"check", "spawn"}]_vars
    /\ [][(pc = "check" /\ pc' # pc) =>
              /\ pc' = "poll"
              /\ now - last_checked_workers > healthcheck_every =>
                    /\ last_checked_workers' = now
                    /\ \A a \in DOMAIN workers :
                          workers'[a].healthy =
                             (/\ workers[a].healthy
                              /\ now - workers[a].last_heartbeat
                                    <= 3 * heartbeat_every)]_vars

\* the iteration was woken by a message of one worker, and the check that
\* follows is about to mark another, stale worker
C13_Witness ==
    /\ pc = "check"
    /\ msg.payload = "Heartbeat"
    /\ now - last_checked_workers > healthcheck_every
    /\ \E a \in DOMAIN workers \ {msg.source} :
          /\ workers[a].healthy
          /\ now - workers[a].last_heartbeat > 3 * heartbeat_every

\* the state of the loop's data before the loop has handled any event
Untouched ==
    /\ workers = EmptyMap
    /\ graph = EmptyMap
    /\ msg = NoMsg
    /\ timeout = 0
    /\ last_checked_workers = 0
    /\ opened = 0

\* C15: startup goes bind, then spawn of the API thread, then the loop.
\* Until both have succeeded nothing is dispatched or swept; the API thread
\* exists exactly once the spawn succeeded, which is also the only way into
\* the loop; a failed bind stops the process with the API thread never
\* started, a failed spawn stops it with the loop never entered.
C15_StartupOrder ==
    /\ [](/\ pc \in {"bind", "spawn"} => (Untouched /\ api_pc = "unborn")
          /\ (pc = "panicked" /\ api_pc = "unborn") => Untouched
          /\ pc \in {"poll", "handle", "lock", "add", "check"} =>
                api_pc # "unborn")
    /\ [][(pc = "bind" /\ pc' # pc) =>
              (pc' \in {"spawn", "panicked"} /\ api_pc' = "unborn")]_vars
    /\ [][(pc = "spawn" /\ pc' # pc) =>
              \/ (pc' = "poll" /\ api_pc' = "idle")
              \/ (pc' = "panicked" /\ api_pc' = "unborn")]_vars
    /\ [][api_pc' # api_pc => (api_pc = "unborn" <=> pc = "spawn")]_vars
    /\ [][pc = "panicked" => (pc' = pc /\ api_pc' = api_pc)]_vars

\* startup failed: the process stopped before the loop and time went on
C15_Witness ==
    /\ pc = "panicked"
    /\ api_pc = "unborn"
    /\ now > 0

\* C16: no step removes an address from the registry or from the graph, and
\* a sweep that executes changes nothing of an entry but its healthy flag
\* and leaves the graph as it is.
C16_NothingRemoved ==
    /\ [][/\ DOMAIN workers \subseteq DOMAIN workers'
          /\ DOMAIN graph \subseteq DOMAIN graph']_vars
    /\ [][ExecutedSweep =>
              /\ graph' = graph
              /\ DOMAIN workers' = DOMAIN workers
              /\ \A a \in DOMAIN workers :
                    /\ workers'[a].last_heartbeat = workers[a].last_heartbeat
                    /\ workers'[a].sender = workers[a].sender]_vars

\* a worker marked unhealthy is still in the registry and in the graph
C16_Witness ==
    \E a \in DOMAIN workers \cap DOMAIN graph :
        /\ ~workers[a].healthy
        /\ graph[a] = workers[a].sender

\* C17: the graph never holds an address the registry lacks; the graph
\* changes only in the admission step, taken under the mutex after the entry
\* was stored, and admits the source with the handle stored in its entry;
\* and whenever the loop waits for its next event (or runs its liveness
\* check) registry and graph hold the same addresses with the same handles.
C17_GraphFollowsRegistry ==
    /\ [](/\ DOMAIN graph \subseteq DOMAIN workers
          /\ pc \in {"poll", "check"} =>
                /\ DOMAIN graph = DOMAIN workers
                /\ \A a \in DOMAIN graph : graph[a] = workers[a].sender
          /\ pc \in {"lock", "add"} =>
                /\ msg.source \in DOMAIN workers
                /\ workers[msg.source].sender = opened
                /\ \A a \in DOMAIN graph : graph[a] # opened)
    /\ [][graph' # graph =>
              /\ pc = "add" /\ lock = "ctrl" /\ lock' = "free"
              /\ workers' = workers
              /\ DOMAIN graph' = DOMAIN graph \cup {msg.source}
              /\ graph'[msg.source] = workers[msg.source].sender
              /\ \A a \in DOMAIN graph \ {msg.source} : graph'[a] = graph[a]]_vars

\* the loop waits for an event with every address admitted, one of them
\* with the handle of its second registration
C17_Witness ==
    /\ pc = "poll"
    /\ \E a \in DOMAIN graph : graph[a] = 2 /\ hist[a] = Mixed

\* C18: the healthy flag of an entry falls only in a sweep that executes,
\* and rises only in the step that stores a new entry for that same address
\* after a successful connect of its Register; in every other step (a
\* Heartbeat, a sweep, a failed Register, a message of another worker) an
\* unhealthy entry stays unhealthy.
C18_HealthyTransitions ==
    [][\A a \in DOMAIN workers :
          /\ (workers[a].healthy /\ ~workers'[a].healthy) => ExecutedSweep
          /\ (~workers[a].healthy /\ workers'[a].healthy) =>
                /\ RegisterStep
                /\ msg.source = a
                /\ pc' = "lock"
                /\ opened' = opened + 1]_vars

\* a sweep has just run over an unhealthy worker whose heartbeat is fresh
C18_Witness ==
    /\ pc = "poll"
    /\ now > 0
    /\ last_checked_workers = now
    /\ \E a \in DOMAIN workers :
          ~workers[a].healthy /\ workers[a].last_heartbeat = now

\* the step of check_worker_liveness
CheckStep == pc = "check" /\ pc' # "check"

\* C19: the Heartbeat handler and the liveness check leave the mutex, the
\* API thread, the connections and the graph alone, and they can always be
\* taken, whoever holds the mutex: with the mutex held by the API thread a
\* Heartbeat of a registered worker is stamped with the current time and a
\* sweep that is due marks the stale healthy workers.
C19_NoLockNoConnect ==
    /\ []((pc = "handle" /\ msg.payload = "Heartbeat") => ENABLED HandleHeartbeat)
    /\ [](pc = "check" => ENABLED CheckWorkerLiveness)
    /\ [][(HeartbeatStep \/ CheckStep) =>
              /\ lock' = lock
              /\ api_pc' = api_pc
              /\ opened' = opened
              /\ graph' = graph]_vars
    /\ [][(lock = "api" /\ HeartbeatStep /\ msg.source \in DOMAIN workers) =>
              workers'[msg.source].last_heartbeat = now]_vars
    /\ [][(lock = "api" /\ ExecutedSweep) =>
              \A a \in DOMAIN workers :
                 (/\ workers[a].healthy
                  /\ now - workers[a].last_heartbeat > 3 * heartbeat_every)
                    => ~workers'[a].healthy]_vars

\* the API thread holds the mutex while a due sweep is about to mark a worker
C19_Witness ==
    /\ lock = "api"
    /\ pc = "check"
    /\ now - last_checked_workers > healthcheck_every
    /\ \E a \in DOMAIN workers :
          /\ workers[a].healthy
          /\ now - workers[a].last_heartbeat > 3 * heartbeat_every

\* C20: the sweep timestamp is the construction time until the first sweep;
\* a liveness check examines the workers exactly when strictly more than
\* healthcheck_every has passed since the timestamp, and then sets it to the
\* current time; otherwise it changes neither the timestamp nor any entry nor
\* any warning count, stale workers included; no other step writes the
\* timestamp.
C20_StrictGate ==
    /\ [](pc \in {"bind", "spawn"} => last_checked_workers = 0)
    /\ [][CheckStep =>
              IF now - last_checked_workers > healthcheck_every
              THEN last_checked_workers' = now
              ELSE /\ last_checked_workers' = last_checked_workers
                   /\ workers' = workers
                   /\ warns' = warns]_vars
    /\ [][last_checked_workers' # last_checked_workers =>
              (CheckStep /\ now - last_checked_workers > healthcheck_every)]_vars

\* exactly healthcheck_every after the last sweep a check is about to run
\* with a healthy worker already past the liveness threshold
C20_Witness ==
    /\ pc = "check"
    /\ last_checked_workers > 0
    /\ now - last_checked_workers = healthcheck_every
    /\ \E a \in DOMAIN workers :
          /\ workers[a].healthy
          /\ now - workers[a].last_heartbeat > 3 * heartbeat_every

\* ---- liveness ----

\* The liveness claim is conditional on the API thread leaving its critical
\* section every time: the next-state relation below is Next without the
\* steps in which that thread dies (ApiPanic, ApiExit) and without
\* ApiMigrate, which the controller cannot observe.
LiveNext ==
    \/ Tick
    \/ Bind
    \/ SpawnApi
    \/ PollProcess
    \/ PollResume
    \/ PollTimeout
    \/ HandleOther
    \/ HandleHeartbeat
    \/ RegisterConnectFail
    \/ RegisterConnectOk
    \/ RegisterLock
    \/ RegisterAddWorker
    \/ CheckWorkerLiveness
    \/ ApiLock
    \/ ApiUnlock

\* The other provisos as fairness conditions: the clock advances, the
\* polling loop keeps delivering events and the closure runs each of its
\* steps to the end, the connect returns, the mutex is handed to the
\* controller if it is free again and again, and the API thread releases it.
Fairness ==
    /\ WF_vars(Tick)
    /\ WF_vars(PollProcess \/ PollResume \/ PollTimeout)
    /\ WF_vars(HandleOther)
    /\ WF_vars(HandleHeartbeat)
    /\ WF_vars(RegisterConnectOk \/ RegisterConnectFail)
    /\ SF_vars(RegisterLock)
    /\ WF_vars(RegisterAddWorker)
    /\ WF_vars(CheckWorkerLiveness)
    /\ WF_vars(ApiUnlock)

LiveSpec == Init /\ [][LiveNext]_vars /\ Fairness

\* heartbeat times early enough for the bounded clock to pass the liveness
\* threshold and one more sweep interval
EarlyTimes == 0 .. (MaxTime - 3 * heartbeat_every - healthcheck_every - 1)

\* address a has a healthy entry whose last heartbeat (or registration) is
\* early enough for the bounded clock to make it stale
EarlyHealthy(a) ==
    /\ a \in DOMAIN workers
    /\ workers[a].healthy
    /\ workers[a].last_heartbeat \in EarlyTimes

\* C14: a registered, healthy worker is eventually marked unhealthy, unless
\* it goes on sending (a Heartbeat or a new Register moves its timestamp
\* past the early times) or the loop has stopped; messages of other workers
\* and the API thread taking the mutex again and again do not prevent it.
C14_EventuallyUnhealthy ==
    \A a \in Addrs :
        EarlyHealthy(a) ~> (pc = "panicked" \/ ~EarlyHealthy(a))

\* a silent worker was marked unhealthy while the other kept sending
C14_Witness ==
    \E a, b \in Addrs :
        /\ a # b
        /\ Quiet(a)
        /\ hist[a] \in EarlyTimes
        /\ ~workers[a].healthy
        /\ hist[b] = Mixed
        /\ b \in DOMAIN workers
        /\ workers[b].last_heartbeat > hist[a] + 3 * heartbeat_every
====
